---- MODULE Spec2Model ----
(***************************************************************************)
(* gonflux: a NetFlow v5 collector (src/main.go).                          *)
(*                                                                         *)
(* main binds a UDP socket and reads datagrams; every datagram is handed   *)
(* to a goroutine running handlePacket, which parses the header and the    *)
(* flow records with binary.Read (big endian), enriches every record in    *)
(* decodeRecord (two lookUpWithCache calls on the process-wide cache) and  *)
(* sends it on outputChannel.  One sink goroutine (pipeOutputToStdout or   *)
(* pipeOutputToUDPSocket) receives from the channel.                       *)
(*                                                                         *)
(* 32-bit wire values are kept as two 16-bit halves [hi, lo], so that the  *)
(* unsigned 32-bit arithmetic of the code is computed exactly.             *)
(* Strings produced by net.IP.String and net.LookupAddr are kept as        *)
(* [kind, ip] values: kind "ip" is the dotted form of the four octets ip,  *)
(* kind "ptr" a resolved name of ip, kind "empty" Go's "".                 *)
(***************************************************************************)
EXTENDS Integers, Sequences, FiniteSets, TLC

\* ------------------------------------------------------------ bounds
\* Datagrams the exporter sends in one run of the pipeline.
MaxDatagrams == 2
\* Flow records encoded in one datagram.
MaxRecords == 2
\* Capacity of outputChannel in the model (main.go makes it with 100).
ChanCap == 1
\* Clock ticks that make one calendar day.
TicksPerDay == 1
\* Last clock value the model reaches.
MaxNow == 2

\* ------------------------------------------------------------ program constants
\* time.Now().AddDate(0, 0, 1): the cache entry lives one day.
CacheDays == 1
\* make([]byte, 4096): the receive buffer.
BufSize == 4096
\* The timeout of the zero cacheRecord{} lies before every clock value.
ZeroTime == -1

Pow16 == 2 ^ 16

\* ------------------------------------------------------------ integers
U32(hi, lo) == [hi |-> hi, lo |-> lo]

\* a - b on uint32 (wraps modulo 2^32).
Sub32(a, b) ==
    LET lo == a.lo - b.lo
        borrow == IF lo < 0 THEN 1 ELSE 0
    IN  [hi |-> (a.hi - b.hi - borrow + 2 * Pow16) % Pow16,
         lo |-> (lo + Pow16) % Pow16]

\* v / 1000 on uint32: the quotient is below 2^23, an ordinary integer.
Div1000(v) ==
    LET qh == v.hi \div 1000
        rh == v.hi % 1000
    IN  qh * Pow16 + ((rh * Pow16 + v.lo) \div 1000)

\* The conversion uint16(x).
ToUint16(x) == x % Pow16

\* The conversion uint8(x).
ToUint8(x) == x % 256

\* x >> n and x & (2^n - 1) on uint16.
Shr(x, n) == x \div (2 ^ n)
LowBits(x, n) == x % (2 ^ n)

\* ------------------------------------------------------------ wire layout
\* binary.BigEndian for uint8, uint16, uint32.
PutU8(v) == <<v>>
PutU16(v) == <<v \div 256, v % 256>>
PutU32(v) == PutU16(v.hi) \o PutU16(v.lo)

GetU8(b, off) == b[off + 1]
GetU16(b, off) == b[off + 1] * 256 + b[off + 2]
GetU32(b, off) == U32(GetU16(b, off), GetU16(b, off + 2))

\* The size of a header with one more uint32 field at its end.
HeaderSizeExtraField == 2 + 2 + 4 + 4 + 4 + 4 + 1 + 1 + 2 + 4

\* binary.Size(header{}) and binary.Size(binaryRecord{}).
HeaderSize == 2 + 2 + 4 + 4 + 4 + 4 + 1 + 1 + 2
RecordSize == 4 + 4 + 4 + 2 + 2 + 4 + 4 + 4 + 4 + 2 + 2 + 1 + 1 + 1 + 1 + 2 + 2 + 1 + 1 + 2

\* The exporter's side of the layout of struct header.
EncodeHeader(h) ==
    PutU16(h.Version) \o PutU16(h.FlowRecords) \o PutU32(h.Uptime)
    \o PutU32(h.UnixSec) \o PutU32(h.UnixNsec) \o PutU32(h.FlowSeqNum)
    \o PutU8(h.EngineType) \o PutU8(h.EngineID) \o PutU16(h.SamplingInterval)

\* The exporter's side of the layout of struct binaryRecord; Pad1 and Pad2
\* are the bytes of the two blank fields.
EncodeRecord(r) ==
    PutU32(r.Ipv4SrcAddrInt) \o PutU32(r.Ipv4DstAddrInt) \o PutU32(r.Ipv4NextHopInt)
    \o PutU16(r.InputSnmp) \o PutU16(r.OutputSnmp)
    \o PutU32(r.InPkts) \o PutU32(r.InBytes)
    \o PutU32(r.FirstInt) \o PutU32(r.LastInt)
    \o PutU16(r.L4SrcPort) \o PutU16(r.L4DstPort)
    \o PutU8(r.Pad1) \o PutU8(r.TCPFlags) \o PutU8(r.Protocol) \o PutU8(r.SrcTos)
    \o PutU16(r.SrcAs) \o PutU16(r.DstAs)
    \o PutU8(r.SrcMask) \o PutU8(r.DstMask) \o PutU16(r.Pad2)

RECURSIVE EncodeRecords(_)
EncodeRecords(rs) ==
    IF rs = <<>> THEN <<>> ELSE EncodeRecord(Head(rs)) \o EncodeRecords(Tail(rs))

\* The first n bytes of b (all of b when it is shorter).
Take(b, n) == SubSeq(b, 1, IF n < Len(b) THEN n ELSE Len(b))
Drop(b, n) == SubSeq(b, (IF n < Len(b) THEN n ELSE Len(b)) + 1, Len(b))

\* binary.Read(buf, binary.BigEndian, &header): the fields in declaration order.
\* Called on at least HeaderSize bytes.
ParseHeader(b) ==
    [Version          |-> GetU16(b, 0),
     FlowRecords      |-> GetU16(b, 2),
     Uptime           |-> GetU32(b, 4),
     UnixSec          |-> GetU32(b, 8),
     UnixNsec         |-> GetU32(b, 12),
     FlowSeqNum       |-> GetU32(b, 16),
     EngineType       |-> GetU8(b, 20),
     EngineID         |-> GetU8(b, 21),
     SamplingInterval |-> GetU16(b, 22)]

\* A record read as if the struct had no blank field before TCPFlags.
ParseRecordNoPad(b) ==
    [Ipv4SrcAddrInt |-> GetU32(b, 0),
     Ipv4DstAddrInt |-> GetU32(b, 4),
     Ipv4NextHopInt |-> GetU32(b, 8),
     InputSnmp      |-> GetU16(b, 12),
     OutputSnmp     |-> GetU16(b, 14),
     InPkts         |-> GetU32(b, 16),
     InBytes        |-> GetU32(b, 20),
     FirstInt       |-> GetU32(b, 24),
     LastInt        |-> GetU32(b, 28),
     L4SrcPort      |-> GetU16(b, 32),
     L4DstPort      |-> GetU16(b, 34),
     TCPFlags       |-> GetU8(b, 36),
     Protocol       |-> GetU8(b, 37),
     SrcTos         |-> GetU8(b, 38),
     SrcAs          |-> GetU16(b, 39),
     DstAs          |-> GetU16(b, 41),
     SrcMask        |-> GetU8(b, 43),
     DstMask        |-> GetU8(b, 44)]

\* binary.Read(buf, binary.BigEndian, &record): the blank fields are skipped,
\* their bytes consumed.  Called on at least RecordSize bytes.
ParseRecord(b) ==
    [Ipv4SrcAddrInt |-> GetU32(b, 0),
     Ipv4DstAddrInt |-> GetU32(b, 4),
     Ipv4NextHopInt |-> GetU32(b, 8),
     InputSnmp      |-> GetU16(b, 12),
     OutputSnmp     |-> GetU16(b, 14),
     InPkts         |-> GetU32(b, 16),
     InBytes        |-> GetU32(b, 20),
     FirstInt       |-> GetU32(b, 24),
     LastInt        |-> GetU32(b, 28),
     L4SrcPort      |-> GetU16(b, 32),
     L4DstPort      |-> GetU16(b, 34),
     TCPFlags       |-> GetU8(b, 37),
     Protocol       |-> GetU8(b, 38),
     SrcTos         |-> GetU8(b, 39),
     SrcAs          |-> GetU16(b, 40),
     DstAs          |-> GetU16(b, 42),
     SrcMask        |-> GetU8(b, 44),
     DstMask        |-> GetU8(b, 45)]

\* A read that wants one byte more than the value takes.
BinaryReadGreedy(b, size) ==
    IF Len(b) <= size
    THEN [ok |-> FALSE, data |-> <<>>, rest |-> <<>>]
    ELSE [ok |-> TRUE, data |-> Take(b, size), rest |-> Drop(b, size)]

\* binary.Read on a bytes.Buffer: io.ReadFull of size bytes.  With fewer bytes
\* left it fails and the buffer is drained; otherwise the bytes are consumed.
BinaryRead(b, size) ==
    IF Len(b) < size
    THEN [ok |-> FALSE, data |-> <<>>, rest |-> <<>>]
    ELSE [ok |-> TRUE, data |-> Take(b, size), rest |-> Drop(b, size)]

\* ------------------------------------------------------------ decodeRecord
\* intToIPv4Addr(intAddr).String(): the four octets, most significant first.
intToIPv4Addr(intAddr) ==
    [kind |-> "ip",
     ip   |-> <<ToUint8(Shr(intAddr.hi, 8)), ToUint8(intAddr.hi),
                ToUint8(Shr(intAddr.lo, 8)), ToUint8(intAddr.lo)>>]

\* Duration: uint16((binRecord.LastInt-binRecord.FirstInt)/1000)
Duration(binRecord) ==
    ToUint16(Div1000(Sub32(binRecord.LastInt, binRecord.FirstInt)))

\* decodedRecord.SamplingAlgorithm = uint8(0x3 & (decodedRecord.SamplingInterval >> 14))
SamplingAlgorithm(samplingInterval) == ToUint8(LowBits(Shr(samplingInterval, 14), 2))

\* decodedRecord.SamplingInterval = 0x3fff & decodedRecord.SamplingInterval
SamplingInterval(samplingInterval) == LowBits(samplingInterval, 14)

\* The two assignments in the other order: the algorithm is taken from the
\* field after it was masked.
DecodeSamplingSwapped(dr) ==
    LET interval == SamplingInterval(dr.header.SamplingInterval)
    IN  [dr EXCEPT !.header.SamplingInterval = interval,
                   !.SamplingAlgorithm = SamplingAlgorithm(interval)]

\* Lines 95 to 98 of decodeRecord, run on the record after both lookups: the
\* algorithm is taken from the packed field before the field is overwritten.
DecodeSampling(dr) ==
    LET alg == SamplingAlgorithm(dr.header.SamplingInterval)
    IN  [dr EXCEPT !.SamplingAlgorithm = alg,
                   !.header.SamplingInterval = SamplingInterval(dr.header.SamplingInterval)]

EmptyString == [kind |-> "empty", ip |-> <<>>]

\* The struct literal of decodeRecord (lines 76 to 88); dgram and idx are
\* history labels: the datagram the record came from and its place in it.
NewDecodedRecord(hdr, binRecord, remoteAddr, dgram, idx) ==
    [header            |-> hdr,
     binaryRecord      |-> binRecord,
     Host              |-> remoteAddr,
     SamplingAlgorithm |-> 0,
     Ipv4SrcAddr       |-> intToIPv4Addr(binRecord.Ipv4SrcAddrInt),
     Ipv4DstAddr       |-> intToIPv4Addr(binRecord.Ipv4DstAddrInt),
     Ipv4NextHop       |-> intToIPv4Addr(binRecord.Ipv4NextHopInt),
     SrcHostName       |-> EmptyString,
     DstHostName       |-> EmptyString,
     Duration          |-> Duration(binRecord),
     dgram             |-> dgram,
     idx               |-> idx]

\* ------------------------------------------------------------ sinks' renderings
\* json.Marshal(record) followed by fmt.Println: one line holding the fields.
JsonLine(record) == [line |-> "json", fields |-> record]

\* fmt.Println(string(out)) for a nil out: a line with nothing on it.
EmptyLine == [line |-> "empty"]

\* formatLineProtocol: the tags, the fields and the timestamp, in the order of
\* the format string; the uint64 timestamp is kept as its two addends.
formatLineProtocol(record) ==
    [line   |-> "netflow",
     tags   |-> <<record.Host, record.Ipv4SrcAddr, record.Ipv4DstAddr,
                  record.SrcHostName, record.DstHostName,
                  record.binaryRecord.Protocol, record.binaryRecord.L4SrcPort,
                  record.binaryRecord.L4DstPort, record.binaryRecord.InputSnmp,
                  record.binaryRecord.OutputSnmp>>,
     fields |-> <<record.binaryRecord.InBytes, record.binaryRecord.InPkts,
                  record.Duration>>,
     time   |-> [sec |-> record.header.UnixSec, nsec |-> record.header.UnixNsec],
     dgram  |-> record.dgram,
     idx    |-> record.idx]

\* ------------------------------------------------------------ the cache
\* cacheRecord{}: what cache[ipAddr] yields for a key the map does not hold.
ZeroCacheRecord == [Hostname |-> EmptyString, timeout |-> ZeroTime]

\* hostnameFromCache := cache[ipAddr]
CacheGet(c, ipAddr) == IF ipAddr \in DOMAIN c THEN c[ipAddr] ELSE ZeroCacheRecord

\* A write that keeps only names the resolver returned.
CachePutIfResolved(c, ipAddr, hostname, t) ==
    IF hostname = ipAddr
    THEN [k \in (DOMAIN c) \ {ipAddr} |-> c[k]]
    ELSE [k \in (DOMAIN c) \cup {ipAddr} |->
             IF k = ipAddr
             THEN [Hostname |-> hostname, timeout |-> t + CacheDays * TicksPerDay]
             ELSE c[k]]

\* An entry written with the time of the write as its timeout.
CachePutNoDay(c, ipAddr, hostname, t) ==
    [k \in (DOMAIN c) \cup {ipAddr} |->
        IF k = ipAddr THEN [Hostname |-> hostname, timeout |-> t] ELSE c[k]]

\* cache[ipAddr] = cacheRecord{hostname, time.Now().AddDate(0,0,1)}
CachePut(c, ipAddr, hostname, t) ==
    [k \in (DOMAIN c) \cup {ipAddr} |->
        IF k = ipAddr
        THEN [Hostname |-> hostname, timeout |-> t + CacheDays * TicksPerDay]
        ELSE c[k]]

\* A cache whose entries are never used.
CacheMissAlways(hostnameFromCache, t) == TRUE

\* The condition of line 125: no entry, or the entry's timeout has passed.
CacheMiss(hostnameFromCache, t) ==
    hostnameFromCache = ZeroCacheRecord \/ t > hostnameFromCache.timeout

\* The first name net.LookupAddr returns for ipAddr when it succeeds.
PtrName(ipAddr) == [kind |-> "ptr", ip |-> ipAddr.ip]

\* ------------------------------------------------------------ state
VARIABLES
    wire,           \* the datagrams the exporter sends, in order of arrival
    dns,            \* the addresses net.LookupAddr resolves in this run
    mainPc,         \* where main stands
    outMethod,      \* the -method flag
    sinkPc,         \* where the sink goroutine stands
    heap,           \* the byte arrays made by main's read loop
    tasks,          \* the handlePacket goroutines, in order of dispatch
    outputChannel,  \* the buffered channel
    cache,          \* the map of lookUpWithCache
    cacheMutex,     \* 0, or the task holding the lock
    now,            \* time.Now()
    resolutions,    \* history: net.LookupAddr calls made, per address
    consumed,       \* history: the records the sink received, in order
    output          \* what the sink wrote: stdout lines or UDP datagrams

vars == <<wire, dns, mainPc, outMethod, sinkPc, heap, tasks, outputChannel, cache,
          cacheMutex, now, resolutions, consumed, output>>

ZeroU32 == U32(0, 0)

\* header{} and binaryRecord{}
ZeroHeader ==
    [Version |-> 0, FlowRecords |-> 0, Uptime |-> ZeroU32, UnixSec |-> ZeroU32,
     UnixNsec |-> ZeroU32, FlowSeqNum |-> ZeroU32, EngineType |-> 0, EngineID |-> 0,
     SamplingInterval |-> 0]

ZeroBinaryRecord ==
    [Ipv4SrcAddrInt |-> ZeroU32, Ipv4DstAddrInt |-> ZeroU32, Ipv4NextHopInt |-> ZeroU32,
     InputSnmp |-> 0, OutputSnmp |-> 0, InPkts |-> ZeroU32, InBytes |-> ZeroU32,
     FirstInt |-> ZeroU32, LastInt |-> ZeroU32, L4SrcPort |-> 0, L4DstPort |-> 0,
     TCPFlags |-> 0, Protocol |-> 0, SrcTos |-> 0, SrcAs |-> 0, DstAs |-> 0,
     SrcMask |-> 0, DstMask |-> 0]

\* A goroutine's locals before they are assigned and after they are dead.
NoDecodedRecord == [none |-> TRUE]

\* go handlePacket(stream, remote, outputChannel): stream reads arr[off..rlen).
NewTask(arr, rlen, remote) ==
    [pc |-> "header", arr |-> arr, off |-> 0, rlen |-> rlen, remote |-> remote,
     header |-> ZeroHeader, i |-> 0, dr |-> NoDecodedRecord,
     which |-> "none", ipAddr |-> EmptyString, hostname |-> EmptyString,
     hostnameFromCache |-> ZeroCacheRecord, errs |-> 0]

\* A stream that is read from just behind the header again and again.
StreamRewound(h, tk) ==
    SubSeq(h[tk.arr], (IF tk.off > HeaderSize THEN HeaderSize ELSE tk.off) + 1, tk.rlen)

\* The unread bytes of task tk's stream.
Stream(h, tk) == SubSeq(h[tk.arr], tk.off + 1, tk.rlen)

\* The process lives until log.Fatalf or a panic in one of its goroutines.
Running == mainPc # "exited"

Tasks == 1 .. Len(tasks)

\* ------------------------------------------------------------ main
\* switch outMethod, default: log.Fatalf ends the process.
MainUnknownMethod ==
    /\ mainPc = "start"
    /\ outMethod \notin {"stdout", "udp"}
    /\ mainPc' = "exited"
    /\ UNCHANGED <<wire, dns, outMethod, sinkPc, heap, tasks, outputChannel, cache,
                   cacheMutex, now, resolutions, consumed, output>>

\* case "stdout": go pipeOutputToStdout(outputChannel)
MainStartStdout ==
    /\ mainPc = "start"
    /\ outMethod = "stdout"
    /\ sinkPc' = "stdout"
    /\ mainPc' = "resolve"
    /\ UNCHANGED <<wire, dns, outMethod, heap, tasks, outputChannel, cache,
                   cacheMutex, now, resolutions, consumed, output>>

\* case "udp" starting the sink of case "stdout".
MainStartUDPWrongSink ==
    /\ mainPc = "start"
    /\ outMethod = "udp"
    /\ sinkPc' = "stdout"
    /\ mainPc' = "resolve"
    /\ UNCHANGED <<wire, dns, outMethod, heap, tasks, outputChannel, cache,
                   cacheMutex, now, resolutions, consumed, output>>

\* case "udp": go pipeOutputToUDPSocket(outputChannel, outDestination)
MainStartUDP ==
    /\ mainPc = "start"
    /\ outMethod = "udp"
    /\ sinkPc' = "udp_resolve"
    /\ mainPc' = "resolve"
    /\ UNCHANGED <<wire, dns, outMethod, heap, tasks, outputChannel, cache,
                   cacheMutex, now, resolutions, consumed, output>>

\* addr, err := net.ResolveUDPAddr("udp", inSource), err == nil
MainResolveAddr ==
    /\ mainPc = "resolve"
    /\ mainPc' = "listen"
    /\ UNCHANGED <<wire, dns, outMethod, sinkPc, heap, tasks, outputChannel, cache,
                   cacheMutex, now, resolutions, consumed, output>>

\* err != nil: log.Fatalf ends the process.
MainResolveAddrFails ==
    /\ mainPc = "resolve"
    /\ mainPc' = "exited"
    /\ UNCHANGED <<wire, dns, outMethod, sinkPc, heap, tasks, outputChannel, cache,
                   cacheMutex, now, resolutions, consumed, output>>

\* conn, err := net.ListenUDP("udp", addr), err == nil.  "relisten" is the
\* same statement reached again by the outer for after SetReadBuffer failed.
MainListen ==
    /\ mainPc \in {"listen", "relisten"}
    /\ mainPc' = "setbuf"
    /\ UNCHANGED <<wire, dns, outMethod, sinkPc, heap, tasks, outputChannel, cache,
                   cacheMutex, now, resolutions, consumed, output>>

\* err != nil, conn == nil.  defer conn.Close() of line 233 stands before the
\* err check and evaluates its receiver, &conn.conn of the embedded net.conn,
\* through the nil *net.UDPConn: a run-time panic, which ends the process.
\* log.Println(err) and the next round of the outer for are not reached.
MainListenFails ==
    /\ mainPc \in {"listen", "relisten"}
    /\ mainPc' = "exited"
    /\ UNCHANGED <<wire, dns, outMethod, sinkPc, heap, tasks, outputChannel, cache,
                   cacheMutex, now, resolutions, consumed, output>>

\* err = conn.SetReadBuffer(receiveBufferSizeBytes), err == nil
MainSetReadBuffer ==
    /\ mainPc = "setbuf"
    /\ mainPc' = "read"
    /\ UNCHANGED <<wire, dns, outMethod, sinkPc, heap, tasks, outputChannel, cache,
                   cacheMutex, now, resolutions, consumed, output>>

\* err != nil: log.Println(err), and the outer for runs again.
MainSetReadBufferFails ==
    /\ mainPc = "setbuf"
    /\ mainPc' = "relisten"
    /\ UNCHANGED <<wire, dns, outMethod, sinkPc, heap, tasks, outputChannel, cache,
                   cacheMutex, now, resolutions, consumed, output>>

\* One array made before the read loop and used by every read.
AllocBufOnce(h) == 1

\* buf := make([]byte, 4096): a new array in every iteration of the read loop.
AllocBuf(h) == Len(h) + 1

\* ReadFromUDP copies the datagram into the array, cut to the array's size;
\* bytes of the array beyond the datagram keep their value.
StoreDatagram(h, a, bytes) ==
    LET got == Take(bytes, BufSize)
    IN  IF a > Len(h)
        THEN Append(h, got)
        ELSE [h EXCEPT ![a] = got \o Drop(@, Len(got))]

\* handlePacket called without go: the read loop waits for the decode to end.
MainReadSync ==
    /\ mainPc = "read"
    /\ Len(tasks) < Len(wire)
    /\ \A t \in Tasks : tasks[t].pc = "done"
    /\ LET d == wire[Len(tasks) + 1]
           a == AllocBuf(heap)
           rlen == Len(Take(d.bytes, BufSize))
       IN  /\ heap' = StoreDatagram(heap, a, d.bytes)
           /\ tasks' = Append(tasks, NewTask(a, rlen, d.remote))
    /\ UNCHANGED <<wire, dns, mainPc, outMethod, sinkPc, outputChannel, cache,
                   cacheMutex, now, resolutions, consumed, output>>

\* rlen, remote, err := conn.ReadFromUDP(buf), err == nil:
\* go handlePacket(bytes.NewBuffer(buf[:rlen]), remote, outputChannel).
\* main does not wait for the goroutine: the next read follows at once.
MainRead ==
    /\ mainPc = "read"
    /\ Len(tasks) < Len(wire)
    /\ LET d == wire[Len(tasks) + 1]
           a == AllocBuf(heap)
           rlen == Len(Take(d.bytes, BufSize))
       IN  /\ heap' = StoreDatagram(heap, a, d.bytes)
           /\ tasks' = Append(tasks, NewTask(a, rlen, d.remote))
    /\ UNCHANGED <<wire, dns, mainPc, outMethod, sinkPc, outputChannel, cache,
                   cacheMutex, now, resolutions, consumed, output>>

\* err != nil: log.Printf, and the read loop runs again.
MainReadFails ==
    /\ mainPc = "read"
    /\ UNCHANGED vars

\* ------------------------------------------------------------ handlePacket
SetTask(t, tk) == tasks' = [tasks EXCEPT ![t] = tk]

\* err := binary.Read(buf, binary.BigEndian, &header)
TaskReadHeader(t) ==
    /\ Running
    /\ tasks[t].pc = "header"
    /\ LET tk == tasks[t]
           r == BinaryRead(Stream(heap, tk), HeaderSize)
       IN  SetTask(t, IF r.ok
                      THEN [tk EXCEPT !.header = ParseHeader(r.data),
                                      !.off = @ + HeaderSize,
                                      !.pc = "loop"]
                      ELSE [tk EXCEPT !.off = tk.rlen,
                                      !.errs = @ + 1,
                                      !.pc = "done"])
    /\ UNCHANGED <<wire, dns, mainPc, outMethod, sinkPc, heap, outputChannel, cache,
                   cacheMutex, now, resolutions, consumed, output>>

\* The entry of lookUpWithCache(ipAddr): hostname := ipAddr, then the Lock.
CallLookup(tk, which, ipAddr) ==
    [tk EXCEPT !.which = which, !.ipAddr = ipAddr, !.hostname = ipAddr,
               !.hostnameFromCache = ZeroCacheRecord, !.pc = "lock1"]

\* for i := 0; i < int(header.FlowRecords); i++: one binary.Read of a record,
\* then decodeRecord up to its first lookUpWithCache.
TaskReadRecord(t) ==
    /\ Running
    /\ tasks[t].pc = "loop"
    /\ LET tk == tasks[t]
           r == BinaryRead(Stream(heap, tk), RecordSize)
           dr == NewDecodedRecord(tk.header, ParseRecord(r.data), tk.remote,
                                  t, tk.i + 1)
       IN  SetTask(t, IF tk.i >= tk.header.FlowRecords
                      THEN [tk EXCEPT !.pc = "done"]
                      ELSE IF ~r.ok
                      THEN [tk EXCEPT !.off = tk.rlen,
                                      !.errs = @ + 1,
                                      !.pc = "done"]
                      ELSE CallLookup([tk EXCEPT !.off = @ + RecordSize, !.dr = dr],
                                      "src", dr.Ipv4SrcAddr))
    /\ UNCHANGED <<wire, dns, mainPc, outMethod, sinkPc, heap, outputChannel, cache,
                   cacheMutex, now, resolutions, consumed, output>>

\* return hostname, back in decodeRecord: after the source lookup the
\* destination lookup is called; after the destination lookup the sampling
\* fields are decoded and the record is ready to be sent.
LookupReturn(tk, hostname) ==
    IF tk.which = "src"
    THEN CallLookup([tk EXCEPT !.dr.SrcHostName = hostname], "dst", tk.dr.Ipv4DstAddr)
    ELSE [tk EXCEPT !.dr = DecodeSampling([tk.dr EXCEPT !.DstHostName = hostname]),
                    !.which = "none", !.ipAddr = EmptyString,
                    !.hostname = EmptyString,
                    !.hostnameFromCache = ZeroCacheRecord,
                    !.pc = "send"]

\* cacheMutex.Lock() of line 122
LookupLockRead(t) ==
    /\ Running
    /\ tasks[t].pc = "lock1"
    /\ cacheMutex = 0
    /\ cacheMutex' = t
    /\ SetTask(t, [tasks[t] EXCEPT !.pc = "read"])
    /\ UNCHANGED <<wire, dns, mainPc, outMethod, sinkPc, heap, outputChannel, cache,
                   now, resolutions, consumed, output>>

\* The read without its Unlock: the lock is kept until the write releases it.
LookupReadKeepsLock(t) ==
    /\ Running
    /\ tasks[t].pc = "read"
    /\ SetTask(t, [tasks[t] EXCEPT !.hostnameFromCache = CacheGet(cache, tasks[t].ipAddr),
                                   !.pc = "check"])
    /\ UNCHANGED <<wire, dns, mainPc, outMethod, sinkPc, heap, outputChannel, cache,
                   cacheMutex, now, resolutions, consumed, output>>

\* hostnameFromCache := cache[ipAddr]; cacheMutex.Unlock()
LookupRead(t) ==
    /\ Running
    /\ tasks[t].pc = "read"
    /\ cacheMutex' = 0
    /\ SetTask(t, [tasks[t] EXCEPT !.hostnameFromCache = CacheGet(cache, tasks[t].ipAddr),
                                   !.pc = "check"])
    /\ UNCHANGED <<wire, dns, mainPc, outMethod, sinkPc, heap, outputChannel, cache,
                   now, resolutions, consumed, output>>

\* The else branch of line 125: hostname = hostnameFromCache.Hostname
LookupHit(t) ==
    /\ Running
    /\ tasks[t].pc = "check"
    /\ ~CacheMiss(tasks[t].hostnameFromCache, now)
    /\ SetTask(t, LookupReturn(tasks[t], tasks[t].hostnameFromCache.Hostname))
    /\ UNCHANGED <<wire, dns, mainPc, outMethod, sinkPc, heap, outputChannel, cache,
                   cacheMutex, now, resolutions, consumed, output>>

\* A lookup that waits while another goroutine resolves the same address.
LookupMissedSingleFlight(t) ==
    /\ Running
    /\ tasks[t].pc = "check"
    /\ CacheMiss(tasks[t].hostnameFromCache, now)
    /\ \A u \in Tasks :
          u # t => ~(/\ tasks[u].pc \in {"resolve", "lock2", "write"}
                     /\ tasks[u].ipAddr = tasks[t].ipAddr)
    /\ SetTask(t, [tasks[t] EXCEPT !.pc = "resolve"])
    /\ UNCHANGED <<wire, dns, mainPc, outMethod, sinkPc, heap, outputChannel, cache,
                   cacheMutex, now, resolutions, consumed, output>>

\* The then branch of line 125: net.LookupAddr is called.
LookupMissed(t) ==
    /\ Running
    /\ tasks[t].pc = "check"
    /\ CacheMiss(tasks[t].hostnameFromCache, now)
    /\ SetTask(t, [tasks[t] EXCEPT !.pc = "resolve"])
    /\ UNCHANGED <<wire, dns, mainPc, outMethod, sinkPc, heap, outputChannel, cache,
                   cacheMutex, now, resolutions, consumed, output>>

Count(bag, k) == IF k \in DOMAIN bag THEN bag[k] ELSE 0
Bump(bag, k) == [x \in (DOMAIN bag) \cup {k} |-> Count(bag, x) + (IF x = k THEN 1 ELSE 0)]

\* hostTemp, err := net.LookupAddr(ipAddr), err == nil: hostname = hostTemp[0]
LookupResolve(t) ==
    /\ Running
    /\ tasks[t].pc = "resolve"
    /\ tasks[t].ipAddr.ip \in dns
    /\ resolutions' = Bump(resolutions, tasks[t].ipAddr)
    /\ SetTask(t, [tasks[t] EXCEPT !.hostname = PtrName(tasks[t].ipAddr),
                                   !.pc = "lock2"])
    /\ UNCHANGED <<wire, dns, mainPc, outMethod, sinkPc, heap, outputChannel, cache,
                   cacheMutex, now, consumed, output>>

\* err != nil: hostname stays ipAddr.
LookupResolveFails(t) ==
    /\ Running
    /\ tasks[t].pc = "resolve"
    /\ tasks[t].ipAddr.ip \notin dns
    /\ resolutions' = Bump(resolutions, tasks[t].ipAddr)
    /\ SetTask(t, [tasks[t] EXCEPT !.pc = "lock2"])
    /\ UNCHANGED <<wire, dns, mainPc, outMethod, sinkPc, heap, outputChannel, cache,
                   cacheMutex, now, consumed, output>>

\* cacheMutex.Lock() of line 130
LookupLockWrite(t) ==
    /\ Running
    /\ tasks[t].pc = "lock2"
    /\ cacheMutex = 0
    /\ cacheMutex' = t
    /\ SetTask(t, [tasks[t] EXCEPT !.pc = "write"])
    /\ UNCHANGED <<wire, dns, mainPc, outMethod, sinkPc, heap, outputChannel, cache,
                   now, resolutions, consumed, output>>

\* cache[ipAddr] = cacheRecord{hostname, time.Now().AddDate(0,0,1)}; Unlock
LookupWrite(t) ==
    /\ Running
    /\ tasks[t].pc = "write"
    /\ cache' = CachePut(cache, tasks[t].ipAddr, tasks[t].hostname, now)
    /\ cacheMutex' = 0
    /\ SetTask(t, LookupReturn(tasks[t], tasks[t].hostname))
    /\ UNCHANGED <<wire, dns, mainPc, outMethod, sinkPc, heap, outputChannel,
                   now, resolutions, consumed, output>>

\* A channel that takes every send.
CanSendUnbounded(ch) == TRUE

\* A send on the buffered channel proceeds only while the buffer has room.
CanSend(ch) == Len(ch) < ChanCap
ChanSend(ch, v) == Append(ch, v)

\* outputChannel <- decodedRecord; i++
TaskSend(t) ==
    /\ Running
    /\ tasks[t].pc = "send"
    /\ CanSend(outputChannel)
    /\ outputChannel' = ChanSend(outputChannel, tasks[t].dr)
    /\ SetTask(t, [tasks[t] EXCEPT !.i = @ + 1, !.dr = NoDecodedRecord, !.pc = "loop"])
    /\ UNCHANGED <<wire, dns, mainPc, outMethod, sinkPc, heap, cache,
                   cacheMutex, now, resolutions, consumed, output>>

\* ------------------------------------------------------------ sinks
\* A receive that leaves the record on the channel.
SinkStdoutPeeks ==
    /\ Running
    /\ sinkPc = "stdout"
    /\ outputChannel # <<>>
    /\ Len(consumed) < MaxDatagrams * MaxRecords
    /\ consumed' = Append(consumed, Head(outputChannel))
    /\ output' = Append(output, JsonLine(Head(outputChannel)))
    /\ UNCHANGED <<wire, dns, mainPc, outMethod, sinkPc, heap, tasks, outputChannel,
                   cache, cacheMutex, now, resolutions>>

\* pipeOutputToStdout: record = <-outputChannel; json.Marshal; fmt.Println
SinkStdout ==
    /\ Running
    /\ sinkPc = "stdout"
    /\ outputChannel # <<>>
    /\ outputChannel' = Tail(outputChannel)
    /\ consumed' = Append(consumed, Head(outputChannel))
    /\ output' = Append(output, JsonLine(Head(outputChannel)))
    /\ UNCHANGED <<wire, dns, mainPc, outMethod, sinkPc, heap, tasks, cache,
                   cacheMutex, now, resolutions>>

\* A failed json.Marshal handled by leaving the record out.
SinkStdoutSkips ==
    /\ Running
    /\ sinkPc = "stdout"
    /\ outputChannel # <<>>
    /\ outputChannel' = Tail(outputChannel)
    /\ consumed' = Append(consumed, Head(outputChannel))
    /\ UNCHANGED <<wire, dns, mainPc, outMethod, sinkPc, heap, tasks, cache,
                   cacheMutex, now, resolutions, output>>

\* out, _ := json.Marshal(record) returning an error: line 105 drops the
\* error, out is nil, and fmt.Println(string(out)) writes an empty line.
\* Nothing is logged and the loop goes on.  (Marshal's error is the library's
\* to return; decodedRecord holds integers and strings only, so this step is
\* left out of Spec, SpecDecode and SpecCache and taken in SpecMarshal.)
SinkStdoutMarshalFails ==
    /\ Running
    /\ sinkPc = "stdout"
    /\ outputChannel # <<>>
    /\ outputChannel' = Tail(outputChannel)
    /\ consumed' = Append(consumed, Head(outputChannel))
    /\ output' = Append(output, EmptyLine)
    /\ UNCHANGED <<wire, dns, mainPc, outMethod, sinkPc, heap, tasks, cache,
                   cacheMutex, now, resolutions>>

\* remote, err := net.ResolveUDPAddr("udp", targetAddr), err == nil
SinkResolve ==
    /\ Running
    /\ sinkPc = "udp_resolve"
    /\ sinkPc' = "udp_dial"
    /\ UNCHANGED <<wire, dns, mainPc, outMethod, heap, tasks, outputChannel, cache,
                   cacheMutex, now, resolutions, consumed, output>>

\* err != nil: log.Printf, and pipeOutputToUDPSocket returns.
SinkResolveFails ==
    /\ Running
    /\ sinkPc = "udp_resolve"
    /\ sinkPc' = "returned"
    /\ UNCHANGED <<wire, dns, mainPc, outMethod, heap, tasks, outputChannel, cache,
                   cacheMutex, now, resolutions, consumed, output>>

\* connection, err := net.DialUDP("udp", nil, remote), err == nil
SinkDial ==
    /\ Running
    /\ sinkPc = "udp_dial"
    /\ sinkPc' = "udp_recv"
    /\ UNCHANGED <<wire, dns, mainPc, outMethod, heap, tasks, outputChannel, cache,
                   cacheMutex, now, resolutions, consumed, output>>

\* err != nil, connection == nil.  defer connection.Close() of line 156 stands
\* before the err check and evaluates its receiver through the nil
\* *net.UDPConn: a run-time panic in the sink's goroutine, which ends the
\* process.  log.Printf and the next round of the outer for are not reached.
SinkDialFails ==
    /\ Running
    /\ sinkPc = "udp_dial"
    /\ sinkPc' = "panicked"
    /\ mainPc' = "exited"
    /\ UNCHANGED <<wire, dns, outMethod, heap, tasks, outputChannel, cache,
                   cacheMutex, now, resolutions, consumed, output>>

\* The inner loop entered although the destination did not resolve.
SinkSendUnresolved ==
    /\ Running
    /\ sinkPc \in {"udp_recv", "returned"}
    /\ outputChannel # <<>>
    /\ outputChannel' = Tail(outputChannel)
    /\ consumed' = Append(consumed, Head(outputChannel))
    /\ output' = Append(output, formatLineProtocol(Head(outputChannel)))
    /\ UNCHANGED <<wire, dns, mainPc, outMethod, sinkPc, heap, tasks, cache,
                   cacheMutex, now, resolutions>>

\* record = <-outputChannel; conn.Write(formatLineProtocol(record)), err == nil
SinkSend ==
    /\ Running
    /\ sinkPc = "udp_recv"
    /\ outputChannel # <<>>
    /\ outputChannel' = Tail(outputChannel)
    /\ consumed' = Append(consumed, Head(outputChannel))
    /\ output' = Append(output, formatLineProtocol(Head(outputChannel)))
    /\ UNCHANGED <<wire, dns, mainPc, outMethod, sinkPc, heap, tasks, cache,
                   cacheMutex, now, resolutions>>

\* err != nil: log.Printf and break; the record is gone, the outer for dials again.
SinkSendFails ==
    /\ Running
    /\ sinkPc = "udp_recv"
    /\ outputChannel # <<>>
    /\ outputChannel' = Tail(outputChannel)
    /\ consumed' = Append(consumed, Head(outputChannel))
    /\ sinkPc' = "udp_dial"
    /\ UNCHANGED <<wire, dns, mainPc, outMethod, heap, tasks, cache,
                   cacheMutex, now, resolutions, output>>

\* ------------------------------------------------------------ the clock
Tick ==
    /\ Running
    /\ now < MaxNow
    /\ now' = now + 1
    /\ UNCHANGED <<wire, dns, mainPc, outMethod, sinkPc, heap, tasks, outputChannel,
                   cache, cacheMutex, resolutions, consumed, output>>

\* ------------------------------------------------------------ inputs
\* The exporter's address as remoteAddr.IP.String() renders it.
Exporter == [kind |-> "ip", ip |-> <<192, 0, 2, 1>>]

\* A header declaring n records, with the packed sampling field s.
MkHeader(n, s) ==
    [Version |-> 5, FlowRecords |-> n, Uptime |-> U32(1, 2),
     UnixSec |-> U32(25000, 3), UnixNsec |-> U32(4, 5), FlowSeqNum |-> U32(0, 7),
     EngineType |-> 1, EngineID |-> 2, SamplingInterval |-> s]

\* The k-th raw record of a datagram: every field holds a value of its own,
\* 10.0.0.k talks to 10.0.0.1; pad fills the two blank fields.
MkRecord(k, first, last, pad) ==
    [Ipv4SrcAddrInt |-> U32(2560, k), Ipv4DstAddrInt |-> U32(2560, 1),
     Ipv4NextHopInt |-> U32(44048, 254),
     InputSnmp |-> 10 + k, OutputSnmp |-> 20 + k,
     InPkts |-> U32(0, 300 + k), InBytes |-> U32(1, 400 + k),
     FirstInt |-> first, LastInt |-> last,
     L4SrcPort |-> 1024 + k, L4DstPort |-> 443,
     Pad1 |-> pad, TCPFlags |-> 16 + k, Protocol |-> 6, SrcTos |-> 8,
     SrcAs |-> 64500 + k, DstAs |-> 64510 + k, SrcMask |-> 24, DstMask |-> 17,
     Pad2 |-> pad * 257]

\* What the exporter puts on the wire: the first cut bytes of the encoded
\* header and records; header and records keep what was encoded.
Datagram(h, recs, cut) ==
    [bytes   |-> Take(EncodeHeader(h) \o EncodeRecords(recs), cut),
     remote  |-> Exporter,
     header  |-> h,
     records |-> recs]

FullLen(m) == HeaderSize + RecordSize * m

\* Uptime values around the wrap of the 32-bit counter and of uint16 seconds:
\* 0, 0x10, 1000, 65536000, 0xFFFFFFF0, 0xFFFFFFFF.
Uptimes ==
    {U32(0, 0), U32(0, 16), U32(0, 1000), U32(1000, 0), U32(65535, 65520),
     U32(65535, 65535)}

\* Packed sampling fields: 0, 0x0064, 0x3FFF, 0x4000, 0x8001, 0xC064, 0xFFFF.
Samplings == {0, 100, 16383, 16384, 32769, 49252, 65535}

PlainRecords(m) == [k \in 1 .. m |-> MkRecord(k, U32(0, 1000), U32(0, 5000), 0)]

\* One complete record, every pair of first and last uptime.
UptimeInputs ==
    {Datagram(MkHeader(1, 100), <<MkRecord(1, f, l, 0)>>, FullLen(1)) :
        f \in Uptimes, l \in Uptimes}

\* One complete record, every packed sampling field.
SamplingInputs ==
    {Datagram(MkHeader(1, s), PlainRecords(1), FullLen(1)) : s \in Samplings}

\* Cuts at and around the end of the header and of every record, and four
\* bytes before the end of the header.
Cuts(m) ==
    ({0, 1, HeaderSize - 4, HeaderSize - 1}
     \cup {HeaderSize + RecordSize * j + e : j \in 0 .. m, e \in {0, 1, RecordSize - 1}})
    \cap (0 .. FullLen(m))

\* Any declared count against any number of encoded records, cut anywhere.
TruncatedInputs ==
    UNION {{Datagram(MkHeader(n, 100), PlainRecords(m), c) : c \in Cuts(m)} :
              n \in 0 .. MaxRecords + 1, m \in 0 .. MaxRecords}

\* Records to tell apart in a round trip; the blank fields are not zero.
RoundTripRecords(k) ==
    {MkRecord(k, U32(0, 16), U32(7, 9), 255), MkRecord(k + 3, U32(65535, 65520), U32(0, 16), 1)}

RoundTripSeqs(n) ==
    IF n = 0 THEN {<<>>}
    ELSE {rs \in [1 .. n -> UNION {RoundTripRecords(k) : k \in 1 .. n}] :
              \A k \in 1 .. n : rs[k] \in RoundTripRecords(k)}

\* A header and N records encoded whole, the header declaring N.
RoundTripInputs ==
    UNION {{Datagram(MkHeader(n, 49252), rs, FullLen(n)) : rs \in RoundTripSeqs(n)} :
              n \in 0 .. MaxRecords}

DecodeInputs == UptimeInputs \cup SamplingInputs \cup TruncatedInputs \cup RoundTripInputs

\* The datagrams of a pipeline run: complete, cut inside the last record, cut
\* inside the header.
PipeDatagrams ==
    {Datagram(MkHeader(MaxRecords, 49252), PlainRecords(MaxRecords), FullLen(MaxRecords)),
     Datagram(MkHeader(MaxRecords, 100), PlainRecords(MaxRecords), FullLen(MaxRecords) - 1),
     Datagram(MkHeader(MaxRecords, 100), PlainRecords(MaxRecords), HeaderSize - 1)}

OutMethods == {"stdout", "udp", "file"}

EmptyCache == [k \in {} |-> ZeroCacheRecord]
NoResolutions == [k \in {} |-> 0]

\* ------------------------------------------------------------ specifications
InitCommon ==
    /\ heap = <<>>
    /\ tasks = <<>>
    /\ outputChannel = <<>>
    /\ cache = EmptyCache
    /\ cacheMutex = 0
    /\ now = 0
    /\ resolutions = NoResolutions
    /\ consumed = <<>>
    /\ output = <<>>

\* The process at the first statement of main, for every -method flag and
\* every sequence of datagrams the exporter will send.  The clock stands
\* still in Spec: the run is shorter than one tick, no cache entry expires.
Init ==
    /\ wire \in [1 .. MaxDatagrams -> PipeDatagrams]
    /\ dns = {<<10, 0, 0, 1>>}
    /\ outMethod \in OutMethods
    /\ mainPc = "start"
    /\ sinkPc = "none"
    /\ InitCommon

Main ==
    \/ MainUnknownMethod \/ MainStartStdout \/ MainStartUDP
    \/ MainResolveAddr \/ MainResolveAddrFails
    \/ MainListen \/ MainListenFails
    \/ MainSetReadBuffer \/ MainSetReadBufferFails
    \/ MainRead \/ MainReadFails

HandlePacket ==
    \/ \E t \in Tasks : TaskReadHeader(t)
    \/ \E t \in Tasks : TaskReadRecord(t)
    \/ \E t \in Tasks : LookupLockRead(t)
    \/ \E t \in Tasks : LookupRead(t)
    \/ \E t \in Tasks : LookupHit(t)
    \/ \E t \in Tasks : LookupMissed(t)
    \/ \E t \in Tasks : LookupResolve(t)
    \/ \E t \in Tasks : LookupResolveFails(t)
    \/ \E t \in Tasks : LookupLockWrite(t)
    \/ \E t \in Tasks : LookupWrite(t)
    \/ \E t \in Tasks : TaskSend(t)

Sink ==
    \/ SinkStdout
    \/ SinkResolve \/ SinkResolveFails \/ SinkDial \/ SinkDialFails
    \/ SinkSend \/ SinkSendFails

Next == Main \/ HandlePacket \/ Sink

Spec == Init /\ [][Next]_vars

\* One datagram decoded by one goroutine: the process with the stdout sink
\* started and the socket bound, for every input of DecodeInputs.
InitDecode ==
    /\ wire \in {<<d>> : d \in DecodeInputs}
    /\ dns = {<<10, 0, 0, 1>>}
    /\ outMethod = "stdout"
    /\ mainPc = "read"
    /\ sinkPc = "stdout"
    /\ InitCommon

NextDecode == MainRead \/ HandlePacket \/ SinkStdout

SpecDecode == InitDecode /\ [][NextDecode]_vars

\* The cache over days: the process with the stdout sink started and the
\* socket bound, the clock running, datagrams of one record whose source and
\* destination are 10.0.0.1, which the resolver knows or does not know.
CacheDatagrams ==
    {Datagram(MkHeader(1, 100), PlainRecords(1), FullLen(1))}

InitCache ==
    /\ wire \in [1 .. MaxDatagrams -> CacheDatagrams]
    /\ dns \in {{}, {<<10, 0, 0, 1>>}}
    /\ outMethod = "stdout"
    /\ mainPc = "read"
    /\ sinkPc = "stdout"
    /\ InitCommon

NextCache == MainRead \/ HandlePacket \/ SinkStdout \/ Tick

SpecCache == InitCache /\ [][NextCache]_vars

\* The stdout sink when json.Marshal may return an error: the process with
\* the stdout sink started and the socket bound, for every input of
\* DecodeInputs.
InitMarshal == InitDecode

NextMarshal == MainRead \/ HandlePacket \/ SinkStdout \/ SinkStdoutMarshalFails

SpecMarshal == InitMarshal /\ [][NextMarshal]_vars

\* The pipeline under fair scheduling: the process with the stdout sink
\* started and the socket bound, every sequence of datagrams of Spec.
InitLive ==
    /\ wire \in [1 .. MaxDatagrams -> PipeDatagrams]
    /\ dns = {<<10, 0, 0, 1>>}
    /\ outMethod = "stdout"
    /\ mainPc = "read"
    /\ sinkPc = "stdout"
    /\ InitCommon

\* A step of goroutine t that waits for nothing.
TaskStep(t) ==
    /\ t \in Tasks
    /\ \/ TaskReadHeader(t) \/ TaskReadRecord(t)
       \/ LookupRead(t) \/ LookupHit(t) \/ LookupMissed(t)
       \/ LookupResolve(t) \/ LookupResolveFails(t) \/ LookupWrite(t)

\* The scheduling of the Go runtime: a goroutine that can run does run (weak
\* fairness of main's read, of the sink's receive and of every step of a
\* decoding goroutine); a goroutine waiting for the mutex or for room on the
\* channel is served in the order of arrival, so it is not passed over for
\* ever (strong fairness of the two Lock calls and of the send).
Fairness ==
    /\ WF_vars(MainRead)
    /\ WF_vars(SinkStdout)
    /\ \A t \in 1 .. MaxDatagrams :
          /\ WF_vars(TaskStep(t))
          /\ SF_vars(t \in Tasks /\ LookupLockRead(t))
          /\ SF_vars(t \in Tasks /\ LookupLockWrite(t))
          /\ SF_vars(t \in Tasks /\ TaskSend(t))

SpecLive == InitLive /\ [][NextDecode]_vars /\ Fairness

\* ------------------------------------------------------------ observations
\* Every record sent on the channel so far, in the order of the sends.
History == consumed \o outputChannel

\* The named fields of an encoded record: the blank fields hold no value.
RawFields(r) == [f \in DOMAIN ZeroBinaryRecord |-> r[f]]

\* The bytes of datagram t that ReadFromUDP delivered.
Received(t) == Take(wire[t].bytes, BufSize)

Min(a, b) == IF a < b THEN a ELSE b

\* The records a datagram's bytes hold whole behind a whole header.
CompleteRecords(b) == IF Len(b) < HeaderSize THEN 0 ELSE (Len(b) - HeaderSize) \div RecordSize

\* The records to expect from a datagram's bytes.
ExpectedRecords(b) ==
    IF Len(b) < HeaderSize THEN 0 ELSE Min(GetU16(b, 2), CompleteRecords(b))

\* Whether decoding the bytes ends in an error.
EndsInError(b) == Len(b) < HeaderSize \/ GetU16(b, 2) > CompleteRecords(b)

\* The records of datagram t sent on the channel so far.
Emitted(t) == SelectSeq(History, LAMBDA r : r.dgram = t)

C2_EmittedCount ==
    \A t \in Tasks :
        LET b == Received(t)
            n == Len(Emitted(t))
        IN  /\ n <= ExpectedRecords(b)
            /\ \A k \in 1 .. n : Emitted(t)[k].idx = k
            /\ tasks[t].pc = "done" =>
                  /\ n = ExpectedRecords(b)
                  /\ tasks[t].errs = (IF EndsInError(b) THEN 1 ELSE 0)
                  /\ Running

\* A datagram declaring two records and holding one and a part of the next,
\* decoded to the end: one record emitted, one error logged.
C2_Witness ==
    \E t \in Tasks :
        /\ tasks[t].pc = "done"
        /\ Len(Received(t)) > FullLen(1)
        /\ GetU16(Received(t), 2) = 2
        /\ CompleteRecords(Received(t)) = 1
        /\ Len(Emitted(t)) = 1
        /\ tasks[t].errs = 1

\* C3: the channel never holds more than its capacity; a goroutine at the send
\* with the channel full cannot send and keeps its record, and can send as
\* soon as the channel has room; no step takes the record from it except the
\* send that puts it on the channel.
C3_Backpressure ==
    /\ [](/\ Len(outputChannel) <= ChanCap
          /\ \A t \in Tasks : tasks[t].pc = "send" =>
                /\ tasks[t].dr # NoDecodedRecord
                /\ (Len(outputChannel) = ChanCap) => ~ENABLED TaskSend(t)
                /\ (Running /\ Len(outputChannel) < ChanCap) => ENABLED TaskSend(t))
    /\ [][\A t \in Tasks : tasks[t].pc = "send" =>
            \/ /\ tasks'[t].pc = "send"
               /\ tasks'[t].dr = tasks[t].dr
               /\ tasks'[t].errs = tasks[t].errs
            \/ /\ outputChannel' = Append(outputChannel, tasks[t].dr)
               /\ tasks'[t].errs = tasks[t].errs]_vars

\* The channel full, the sink returned for good, a goroutine waiting to send.
C3_Witness ==
    /\ Len(outputChannel) = ChanCap
    /\ sinkPc = "returned"
    /\ \E t \in Tasks : tasks[t].pc = "send"

\* C4: the read loop waits for no goroutine and not for the channel: whenever
\* main stands at the read and a datagram has arrived, it can read it and
\* dispatch a goroutine, whatever the channel, the sink and the goroutines do.
C4_ReceiveNeverWaits ==
    (mainPc = "read" /\ Len(tasks) < Len(wire)) => ENABLED MainRead

\* A goroutine dispatched while the channel is full, the sink has returned and
\* an earlier goroutine waits to send.
C4_Witness ==
    /\ Len(outputChannel) = ChanCap
    /\ sinkPc = "returned"
    /\ Len(tasks) >= 2
    /\ tasks[Len(tasks)].pc = "header"
    /\ \E t \in Tasks : tasks[t].pc = "send"

\* The hostname the lookup running in task tk hands to decodeRecord.
Returned(tk, before) ==
    IF before.which = "src" THEN tk.dr.SrcHostName ELSE tk.dr.DstHostName

\* One day on the clock.
Day == CacheDays * TicksPerDay

\* Task t is inside lookUpWithCache and takes a step.
LookupStep(t, pc) == tasks[t].pc = pc /\ tasks'[t] # tasks[t]

\* C5: a lookup that finds an entry whose timeout lies in the future returns
\* the entry's hostname and calls no resolver; so, while one goroutine is the
\* only caller, a resolver call for an address is made only when the cache
\* holds no entry for it or an expired one, and the first entry written for an
\* address follows exactly one resolver call.
C5_FreshEntryIsReturned ==
    [][/\ \A t \in Tasks :
            (/\ LookupStep(t, "check")
             /\ tasks[t].hostnameFromCache # ZeroCacheRecord
             /\ tasks[t].hostnameFromCache.timeout > now)
                => /\ Returned(tasks'[t], tasks[t]) = tasks[t].hostnameFromCache.Hostname
                   /\ tasks'[t].pc \in {"lock1", "send"}
                   /\ resolutions' = resolutions
       /\ Len(tasks) = 1 =>
            \A t \in Tasks :
                LET ip == tasks[t].ipAddr
                IN  /\ Count(resolutions', ip) > Count(resolutions, ip)
                          => (ip \notin DOMAIN cache \/ now > cache[ip].timeout)
                    /\ (ip \notin DOMAIN cache /\ ip \in DOMAIN cache')
                          => Count(resolutions', ip) = 1]_vars

\* One goroutine, alone, has looked the same address up twice within the
\* day: the second lookup returned the cached name after one resolver call.
C5_Witness ==
    /\ Len(tasks) = 1
    /\ tasks[1].pc = "send"
    /\ tasks[1].dr.Ipv4SrcAddr = tasks[1].dr.Ipv4DstAddr
    /\ tasks[1].dr.SrcHostName = PtrName(tasks[1].dr.Ipv4SrcAddr)
    /\ tasks[1].dr.DstHostName = PtrName(tasks[1].dr.Ipv4SrcAddr)
    /\ Count(resolutions, tasks[1].dr.Ipv4SrcAddr) = 1
    /\ now <= cache[tasks[1].dr.Ipv4SrcAddr].timeout

\* C6: a lookup that finds no entry or an expired one calls the resolver once,
\* takes the resolved name when the call succeeds and the address itself when
\* it fails, logs no error, and writes for the address an entry holding that
\* hostname and the time of the write plus one day, leaving the other entries
\* as they are; the hostname written is the hostname returned.
C6_MissResolvesAndWrites ==
    [][\A t \in Tasks :
        LET tk == tasks[t]
            ip == tk.ipAddr
        IN  /\ (/\ LookupStep(t, "check")
                /\ (tk.hostnameFromCache = ZeroCacheRecord
                      \/ now > tk.hostnameFromCache.timeout))
                  => /\ tasks'[t].pc = "resolve"
                     /\ tasks'[t].errs = tk.errs
            /\ LookupStep(t, "resolve")
                  => /\ Count(resolutions', ip) = Count(resolutions, ip) + 1
                     /\ tasks'[t].hostname = (IF ip.ip \in dns THEN PtrName(ip) ELSE ip)
                     /\ tasks'[t].pc = "lock2"
                     /\ tasks'[t].errs = tk.errs
            /\ LookupStep(t, "write")
                  => /\ DOMAIN cache' = (DOMAIN cache) \cup {ip}
                     /\ cache'[ip] = [Hostname |-> tk.hostname, timeout |-> now + Day]
                     /\ \A k \in DOMAIN cache : k # ip => cache'[k] = cache[k]
                     /\ Returned(tasks'[t], tk) = tk.hostname
                     /\ tasks'[t].pc \in {"lock1", "send"}
                     /\ tasks'[t].errs = tk.errs]_vars

\* One goroutine, alone, has replaced an expired entry after a second, failed
\* resolver call: the entry holds the address itself and a new timeout.
C6_Witness ==
    /\ Len(tasks) = 1
    /\ \E ip \in DOMAIN cache :
          /\ cache[ip].Hostname = ip
          /\ Count(resolutions, ip) = 2
          /\ cache[ip].timeout > 2 * Day

\* C7: nothing keeps a second goroutine from resolving an address that another
\* goroutine is resolving: a lookup that observed a miss goes on to the
\* resolver, the resolver call and the write are always possible once the lock
\* is free, every goroutine past the resolver has made its own call, and a
\* write replaces the entry another goroutine wrote in between.
C7_DuplicateResolution ==
    /\ [](/\ \A t \in Tasks :
                LET tk == tasks[t]
                IN  /\ (/\ tk.pc = "check"
                        /\ (tk.hostnameFromCache = ZeroCacheRecord
                              \/ now > tk.hostnameFromCache.timeout))
                          => ENABLED LookupMissed(t)
                    /\ tk.pc = "resolve"
                          => ENABLED (LookupResolve(t) \/ LookupResolveFails(t))
                    /\ (tk.pc = "lock2" /\ cacheMutex = 0) => ENABLED LookupLockWrite(t)
                    /\ tk.pc = "write" => ENABLED LookupWrite(t)
          /\ \A ip \in DOMAIN resolutions :
                resolutions[ip]
                    >= Cardinality({t \in Tasks : /\ tasks[t].pc \in {"lock2", "write"}
                                                  /\ tasks[t].ipAddr = ip}))
    /\ [][\A t \in Tasks :
            (LookupStep(t, "write") /\ tasks[t].ipAddr \in DOMAIN cache)
                => cache'[tasks[t].ipAddr].Hostname = tasks[t].hostname]_vars

\* Two goroutines have run to their end within one clock value and the
\* resolver was called twice for one address: both saw the miss, both wrote.
C7_Witness ==
    /\ now = 0
    /\ Len(tasks) = 2
    /\ \A t \in Tasks : tasks[t].pc = "done"
    /\ \E ip \in DOMAIN resolutions : resolutions[ip] = 2 /\ ip \in DOMAIN cache

\* C8: the Duration of a decoded record is ((last - first) mod 2^32) / 1000,
\* truncated to an integer and not reduced any further.
C8_DurationIsQuotient ==
    \A p \in DOMAIN History :
        History[p].Duration
            = Div1000(Sub32(History[p].binaryRecord.LastInt,
                            History[p].binaryRecord.FirstInt))

\* C9: with raw the packed sampling field of the datagram's header, a decoded
\* record has SamplingAlgorithm = (raw >> 14) & 0x3 and SamplingInterval =
\* raw & 0x3FFF; the packed value itself is not kept.
C9_SamplingDecoded ==
    \A p \in DOMAIN History :
        LET raw == wire[History[p].dgram].header.SamplingInterval
        IN  /\ History[p].SamplingAlgorithm = (raw \div 16384) % 4
            /\ History[p].header.SamplingInterval = raw % 16384
            /\ History[p].header.SamplingInterval < 16384

\* The packed field 0xC064 decoded: algorithm 3, interval 100.
C9_Witness ==
    \E p \in DOMAIN History :
        /\ wire[History[p].dgram].header.SamplingInterval = 49252
        /\ History[p].SamplingAlgorithm = 3
        /\ History[p].header.SamplingInterval = 100

\* Datagram t is a header declaring N records followed by N whole records.
WholeDatagram(t) ==
    /\ wire[t].header.FlowRecords = Len(wire[t].records)
    /\ Len(Received(t)) = FullLen(Len(wire[t].records))

\* C10: a header and N raw records, encoded in the big-endian layout with the
\* bytes of the blank fields, decode to exactly N records whose raw fields are
\* the encoded ones, field for field and in the same order.
C10_RoundTrip ==
    \A t \in Tasks :
        (tasks[t].pc = "done" /\ WholeDatagram(t))
            => /\ Len(Emitted(t)) = Len(wire[t].records)
               /\ tasks[t].errs = 0
               /\ \A k \in 1 .. Len(wire[t].records) :
                     Emitted(t)[k].binaryRecord = RawFields(wire[t].records[k])

\* Two records with bytes other than zero in the blank fields, decoded.
C10_Witness ==
    \E t \in Tasks :
        /\ tasks[t].pc = "done"
        /\ WholeDatagram(t)
        /\ Len(wire[t].records) = 2
        /\ \A k \in 1 .. 2 : wire[t].records[k].Pad1 # 0 /\ wire[t].records[k].Pad2 # 0
        /\ Len(Emitted(t)) = 2

\* The UDP sink is inside its reconnect loop: about to dial, or receiving.
InReconnectLoop == sinkPc \in {"udp_dial", "udp_recv"}

\* C11: in the UDP sink every record taken from the channel is sent at most
\* once; a failed send drops its record (the record is neither written nor
\* put back) and leads to a new dial; a dial, failed or not, takes no record
\* from the channel; and the sink never leaves its reconnect loop.
C11_UDPSinkDropsAndRetries ==
    /\ [](outMethod = "udp" => Len(output) <= Len(consumed))
    /\ [][outMethod = "udp" =>
            /\ consumed' # consumed =>
                  /\ sinkPc = "udp_recv"
                  /\ outputChannel # <<>>
                  /\ consumed' = Append(consumed, Head(outputChannel))
                  /\ outputChannel' = Tail(outputChannel)
                  /\ \/ output' = Append(output, formatLineProtocol(Head(outputChannel)))
                           /\ sinkPc' = "udp_recv"
                     \/ output' = output /\ sinkPc' = "udp_dial"
            /\ consumed' = consumed => output' = output
            /\ sinkPc = "udp_dial" => consumed' = consumed
            /\ InReconnectLoop => InReconnectLoop']_vars

\* C12: once the UDP sink's destination failed to resolve the sink has returned
\* for good: no record is ever taken from the channel while the process runs
\* on; when the channel holds its capacity of records no goroutine can send,
\* the channel stays full, and main still reads the next datagram and starts
\* its goroutine.
C12_UnresolvedSinkNeverDrains ==
    /\ [](sinkPc = "returned" =>
            /\ consumed = <<>>
            /\ output = <<>>
            /\ Len(outputChannel) = ChanCap => \A t \in Tasks : ~ENABLED TaskSend(t)
            /\ (mainPc = "read" /\ Len(tasks) < Len(wire)) => ENABLED MainRead)
    /\ [][sinkPc = "returned" =>
            /\ sinkPc' = "returned"
            /\ Len(outputChannel) = ChanCap => outputChannel' = outputChannel]_vars

\* The destination did not resolve, the channel is full, the goroutines of two
\* datagrams wait at their send, one started after the other was blocked, and
\* main is at its read.
C12_Witness ==
    /\ sinkPc = "returned"
    /\ mainPc = "read"
    /\ Len(outputChannel) = ChanCap
    /\ Len(tasks) = 2
    /\ tasks[1].pc = "send" /\ tasks[1].i = 1
    /\ tasks[2].pc = "send"

\* C13: a failed bind and a failed SetReadBuffer end the process: main never
\* comes back to the bind, and from the bind or the configuration it goes on
\* only on success; a failed read leaves main at the read.  (Steps in which
\* the sink's goroutine ends the process are not steps of main.)
C13_BindOrConfigFailureIsFatal ==
    /\ [](mainPc # "relisten")
    /\ [][sinkPc' = sinkPc =>
            /\ mainPc = "listen" => mainPc' \in {"listen", "setbuf", "exited"}
            /\ mainPc = "setbuf" => mainPc' \in {"setbuf", "read", "exited"}
            /\ mainPc = "read" => mainPc' = "read"]_vars

\* A sink's goroutine is running.
LiveSink == sinkPc \in {"stdout", "udp_resolve", "udp_dial", "udp_recv"}

\* The states of the sink that the -method flag selects; the UDP sink whose
\* destination did not resolve has returned.
SinkStates(method) ==
    CASE method = "stdout" -> {"stdout"}
      [] method = "udp" -> {"udp_resolve", "udp_dial", "udp_recv", "returned"}
      [] OTHER -> {}

\* An unknown -method ends the process before any sink, bind or read.
UnknownMethodEndsAtStartup ==
    outMethod \notin {"stdout", "udp"} =>
        /\ sinkPc = "none"
        /\ mainPc \in {"start", "exited"}
        /\ tasks = <<>>
        /\ heap = <<>>

\* C14 as stated: whenever main is in its receive loop one sink's goroutine is
\* running, and an unknown -method ends the process before any sink or read.
C14_OneLiveSinkAtReceiveLoop ==
    /\ mainPc = "read" => LiveSink
    /\ UnknownMethodEndsAtStartup

\* C14, amended: whenever main is in its receive loop exactly one sink has been
\* started, the one the -method flag selects, and it is running or, for the
\* UDP sink whose destination did not resolve, has returned; a record leaves
\* the channel only from its head, into the hands of that sink while it is
\* at its receive; an unknown -method ends the process before any sink or read.
C14_OneSinkStarted ==
    /\ [](/\ mainPc = "read" => sinkPc \in SinkStates(outMethod)
          /\ sinkPc # "none" => sinkPc \in SinkStates(outMethod) \cup {"panicked"}
          /\ UnknownMethodEndsAtStartup)
    /\ [][/\ \/ History' = History
             \/ \E r \in {tasks[t].dr : t \in Tasks} : History' = Append(History, r)
          /\ consumed' # consumed =>
                /\ sinkPc \in {"stdout", "udp_recv"}
                /\ sinkPc \in SinkStates(outMethod)
                /\ consumed' = Append(consumed, Head(outputChannel))
                /\ outputChannel' = Tail(outputChannel)]_vars

\* main is in its receive loop with two goroutines started, and the UDP sink
\* has taken records of both datagrams from the channel.
C14_Witness ==
    /\ mainPc = "read"
    /\ outMethod = "udp"
    /\ sinkPc = "udp_recv"
    /\ Len(tasks) = 2
    /\ \E p \in DOMAIN consumed : \E q \in DOMAIN consumed :
          consumed[p].dgram = 1 /\ consumed[q].dgram = 2

\* The addresses for which goroutine t has returned from lookUpWithCache while
\* decoding its current record.
LookedUp(tk) ==
    IF tk.pc = "send" THEN {tk.dr.Ipv4SrcAddr, tk.dr.Ipv4DstAddr}
    ELSE IF tk.which = "dst" THEN {tk.dr.Ipv4SrcAddr}
    ELSE {}

\* C15: no key ever leaves the cache, and every address for which a lookup has
\* returned, for a record under decoding or for a record already sent, has an
\* entry from then on; a write on the miss path replaces the entry of its own
\* key and no other.
C15_CacheNeverRemoves ==
    /\ [](/\ \A t \in Tasks : LookedUp(tasks[t]) \subseteq DOMAIN cache
          /\ \A p \in DOMAIN History :
                {History[p].Ipv4SrcAddr, History[p].Ipv4DstAddr} \subseteq DOMAIN cache
          /\ \A ip \in DOMAIN cache : cache[ip] # ZeroCacheRecord)
    /\ [][/\ DOMAIN cache \subseteq DOMAIN cache'
          /\ \A t \in Tasks :
                LookupStep(t, "write") =>
                    \A ip \in DOMAIN cache : ip # tasks[t].ipAddr => cache'[ip] = cache[ip]]_vars

\* A first goroutine has finished; the entry it left has expired and is still
\* held while a second goroutine is about to replace it.
C15_Witness ==
    /\ Len(tasks) = 2
    /\ tasks[1].pc = "done"
    /\ tasks[2].pc = "write"
    /\ tasks[2].hostnameFromCache # ZeroCacheRecord
    /\ now > tasks[2].hostnameFromCache.timeout
    /\ tasks[2].ipAddr \in DOMAIN cache
    /\ Len(consumed) >= 1

\* Goroutine t has read the header and no record yet.
HeaderJustRead(t) == tasks[t].pc = "loop" /\ tasks[t].i = 0 /\ tasks[t].dr = NoDecodedRecord

\* C16 as stated: the header takes 20 bytes of the stream, and a datagram of
\* exactly 20 bytes that declares no record is decoded without an error.
C16_HeaderIs20Bytes ==
    \A t \in Tasks :
        /\ HeaderJustRead(t) => tasks[t].off = 20
        /\ (/\ tasks[t].pc = "done"
            /\ Len(Received(t)) = 20
            /\ GetU16(Received(t), 2) = 0) => tasks[t].errs = 0

\* C16, amended: the header takes 24 bytes of the stream, so the first record
\* is read from byte offset 24; a datagram of exactly 24 bytes that declares no
\* record is decoded without an error, and a datagram of fewer than 24 bytes,
\* 20 among them, is dropped with one error and no record.
C16_HeaderIs24Bytes ==
    \A t \in Tasks :
        LET b == Received(t)
        IN  /\ HeaderJustRead(t) => tasks[t].off = 24
            /\ Emitted(t) # <<>> =>
                  /\ Emitted(t)[1].binaryRecord.Ipv4SrcAddrInt = GetU32(b, 24)
                  /\ Emitted(t)[1].binaryRecord.L4DstPort = GetU16(b, 24 + 34)
                  /\ Emitted(t)[1].binaryRecord.DstMask = GetU8(b, 24 + 45)
            /\ tasks[t].pc = "done" =>
                  /\ (Len(b) = 24 /\ GetU16(b, 2) = 0) =>
                        tasks[t].errs = 0 /\ Emitted(t) = <<>>
                  /\ Len(b) < 24 => tasks[t].errs = 1 /\ Emitted(t) = <<>>

\* A datagram of exactly 24 bytes declaring no record has been decoded to its
\* end without an error.
C16_Witness ==
    \E t \in Tasks :
        /\ tasks[t].pc = "done"
        /\ Len(Received(t)) = 24
        /\ GetU16(Received(t), 2) = 0
        /\ tasks[t].errs = 0
        /\ tasks[t].off = 24

\* C17: the lock is held only by a goroutine at its map read or its map write,
\* never by one at the condition, at the resolver or outside the lookup; the
\* holder can always go on and its next step releases the lock; and while a
\* goroutine is at the resolver and the lock is free, any other goroutine
\* waiting for the lock can take it.
C17_LockOnlyAroundMapAccess ==
    /\ [](/\ cacheMutex # 0 =>
                /\ cacheMutex \in Tasks
                /\ tasks[cacheMutex].pc \in {"read", "write"}
                /\ ENABLED (LookupRead(cacheMutex) \/ LookupWrite(cacheMutex))
          /\ \A t \in Tasks :
                /\ tasks[t].pc \in {"read", "write"} => cacheMutex = t
                /\ tasks[t].pc = "resolve" =>
                      /\ cacheMutex # t
                      /\ \A u \in Tasks :
                            (tasks[u].pc = "lock1" /\ cacheMutex = 0)
                                => ENABLED LookupLockRead(u)
                      /\ \A u \in Tasks :
                            (tasks[u].pc = "lock2" /\ cacheMutex = 0)
                                => ENABLED LookupLockWrite(u))
    /\ [][\A t \in Tasks :
            (cacheMutex = t /\ tasks'[t] # tasks[t]) => cacheMutex' = 0]_vars

\* One goroutine is at the resolver while another holds the lock for its read.
C17_Witness ==
    \E t \in Tasks : \E u \in Tasks :
        /\ tasks[t].pc = "resolve"
        /\ tasks[u].pc = "read"
        /\ cacheMutex = u

\* C18: every goroutine reads an array of its own, which holds the bytes of
\* its datagram from the dispatch on: no two goroutines have the same array,
\* no step writes an array that has been handed out, and what a goroutine has
\* emitted are the records of its own datagram, whatever main has read since.
C18_OwnBuffer ==
    /\ [](/\ \A t \in Tasks : \A u \in Tasks :
                t # u => tasks[t].arr # tasks[u].arr
          /\ \A t \in Tasks :
                /\ tasks[t].arr \in DOMAIN heap
                /\ Take(heap[tasks[t].arr], tasks[t].rlen) = Received(t)
                /\ \A k \in DOMAIN Emitted(t) :
                      /\ Emitted(t)[k].header.FlowRecords = GetU16(Received(t), 2)
                      /\ Emitted(t)[k].binaryRecord.InPkts
                            = GetU32(Received(t), HeaderSize + RecordSize * (k - 1) + 16))
    /\ [][\A a \in DOMAIN heap : a \in DOMAIN heap' /\ heap'[a] = heap[a]]_vars

\* The first goroutine has sent one record and has its second still to read
\* while main has read a different datagram for a second goroutine.
C18_Witness ==
    /\ Len(tasks) = 2
    /\ tasks[1].pc = "loop"
    /\ tasks[1].i = 1
    /\ tasks[2].pc # "header"
    /\ wire[1].bytes # wire[2].bytes
    /\ heap[tasks[1].arr] # heap[tasks[2].arr]

Drained ==
    /\ Len(tasks) = Len(wire)
    /\ \A t \in Tasks : tasks[t].pc = "done" /\ Len(Emitted(t)) = ExpectedRecords(Received(t))
    /\ outputChannel = <<>>
    /\ Len(output) = Len(History)

====
